---- MODULE Spec2Model ----
(***************************************************************************)
(* vsfs: the formatter (mkfs.c) and the operations engine (vsfs.c) over    *)
(* one memory-mapped image.                                                *)
(*                                                                         *)
(* The image is modelled as the C code sees it: one flat array of cells,   *)
(* and every structure (superblock, bitmaps, inode table, directory block, *)
(* file data) is a view computed from a cell address, exactly as the code  *)
(* computes it from fs->image.  The machine is scaled down: every integer  *)
(* field occupies one cell, a cell of a bitmap carries BitsPerCell bits,   *)
(* a block has VSFS_BLOCK_SIZE cells, 32-bit arithmetic wraps at WordMod   *)
(* and 64-bit arithmetic at WideMod.  A name buffer is one cell holding    *)
(* the code of the NUL-terminated string stored in it (0 is "").           *)
(*                                                                         *)
(* An access outside the mapping, and a call that breaks a precondition    *)
(* bitmap.h states (the build checks them with assert), end the process:   *)
(* the operation stores nothing more and the mount is gone.  Properties    *)
(* are stated over live mounts, so none rests on what a dead process left. *)
(***************************************************************************)
EXTENDS Integers, Sequences, FiniteSets, TLC

(* ---------------------------------------------------------------- scale *)

\* cells per block (4096 bytes in the build)
VSFS_BLOCK_SIZE == 8
\* direct pointers per inode (a vsfs.h constant, scaled)
VSFS_NUM_DIRECT == 2
\* bits of a bitmap carried by one cell (CHAR_BIT)
BitsPerCell == 8
\* blocks of the image file that is formatted and mounted
ImgBlocks == 10
\* mkfs -i
NumInodes == 4
\* operations issued on one mount
MaxOps == 4
\* longest file name and longest path (vsfs.h constants, scaled)
VSFS_NAME_MAX == 6
VSFS_PATH_MAX == 8
\* the unit of st_blocks (512 bytes in the build)
SectorSize == 4

WordMod == 2 ^ BitsPerCell
WideMod == WordMod * WordMod
ImgCells == ImgBlocks * VSFS_BLOCK_SIZE

(* --------------------------------------------------------------- layout *)

VSFS_SB_BLKNUM == 0
VSFS_IMAP_BLKNUM == 1
VSFS_DMAP_BLKNUM == 2
VSFS_ITBL_BLKNUM == 3
VSFS_ROOT_INO == 0
VSFS_INO_MAX == WordMod - 1
VSFS_MAGIC == WordMod - 59
VSFS_BLK_MAX == VSFS_BLOCK_SIZE * BitsPerCell
VSFS_BLK_MIN == VSFS_ITBL_BLKNUM + 2

\* vsfs_superblock, one cell per field
SB_MAGIC == 0
SB_SIZE == 1
SB_NUM_INODES == 2
SB_FREE_INODES == 3
SB_NUM_BLOCKS == 4
SB_FREE_BLOCKS == 5
SB_DATA_REGION == 6

\* vsfs_inode, one cell per field; i_direct[k] is cell I_DIRECT + k
I_MODE == 0
I_NLINK == 1
I_SIZE == 2
I_BLOCKS == 3
I_MTIME == 4
I_DIRECT == 5
I_INDIRECT == I_DIRECT + VSFS_NUM_DIRECT
SizeofInode == I_INDIRECT + 1

\* vsfs_dentry: ino, then the name buffer
D_INO == 0
D_NAME == 1
SizeofDentry == 2
\* sizeof(vsfs_ino_t), in characters of a name
SizeofInoT == 4
\* sizeof(vsfs_blk_t), in cells
SizeofBlkT == 1

DentriesPerBlock == VSFS_BLOCK_SIZE \div SizeofDentry

S_IFDIR_0777 == 4
S_IFREG == 8

ENOENT == -2
ENOMEM == -12
EFBIG == -27
ENOSPC == -28
ENAMETOOLONG == -36
\* what an operation "returns" when the process died in it
Crashed == -99

\* names (the leaf of a path "/name"); every code is a string
RootLeaf == 0
NameDot == 1
NameDotDot == 2
FileNames == {3, 4, 5}
\* strlen of the string a name cell holds: 3 is "a", 4 is "hello", 5 is "c"
NameLen(c) ==
  CASE c = 0 -> 0
    [] c = NameDotDot -> 2
    [] c = 4 -> 5
    [] OTHER -> 1

(* --------------------------------------------------------------- memory *)
\* A memory is [c: the cells, f: the process has faulted].  After a fault
\* (an access outside the mapping, a violated precondition of bitmap.h)
\* nothing more is stored.

InImage(a) == a >= 0 /\ a < ImgCells

Load(mm, a) == IF InImage(a) THEN mm.c[a] ELSE 0

Touch(mm, a) == IF InImage(a) \/ mm.f THEN mm ELSE [mm EXCEPT !.f = TRUE]

StoreRaw(mm, a, v) ==
  IF mm.f THEN mm
  ELSE IF InImage(a) THEN [mm EXCEPT !.c[a] = v]
  ELSE [mm EXCEPT !.f = TRUE]

\* a 32-bit (or narrower) store
Store(mm, a, v) == StoreRaw(mm, a, v % WordMod)

\* a 64-bit store (i_size, sb->size)
Store64(mm, a, v) == StoreRaw(mm, a, v % WideMod)

\* memset(image + a, v, n): the cells inside the mapping are written, and a
\* range that leaves the mapping faults
Memset(mm, a, v, n) ==
  IF mm.f \/ n <= 0 THEN mm
  ELSE [c |-> [x \in DOMAIN mm.c |-> IF a <= x /\ x < a + n THEN v ELSE mm.c[x]],
        f |-> ~(InImage(a) /\ InImage(a + n - 1))]

\* memcpy(image + a, buf, Len(buf))
RECURSIVE Memcpy(_, _, _)
Memcpy(mm, a, buf) ==
  IF buf = << >> THEN mm
  ELSE Memcpy(Store(mm, a, Head(buf)), a + 1, Tail(buf))

\* memcpy(out, image + a, n)
CopyOut(mm, a, n) == [i \in 1..n |-> Load(mm, a + i - 1)]

\* a read of n cells at a: a range that leaves the mapping faults
TouchRange(mm, a, n) ==
  IF n <= 0 THEN mm ELSE Touch(Touch(mm, a), a + n - 1)

\* Return the integer ceiling of x / y, in uint32_t
div_round_up(x, y) == (((x % WordMod) + y - 1) % WordMod) \div y

BlockAddr(b) == b * VSFS_BLOCK_SIZE
SbAddr(field) == BlockAddr(VSFS_SB_BLKNUM) + field
InodeAddr(ino) == BlockAddr(VSFS_ITBL_BLKNUM) + ino * SizeofInode
InodesPerBlock == VSFS_BLOCK_SIZE \div SizeofInode

(* --------------------------------------------------------------- bitmap *)

BitOf(v, j) == (v \div (2 ^ j)) % 2
BitCell(blk, i) == BlockAddr(blk) + (i \div BitsPerCell)

bitmap_isset(mm, blk, nbits, i) ==
  BitOf(Load(mm, BitCell(blk, i)), i % BitsPerCell) = 1

\* Set the bit at index to 0 if val==false, or 1 if val == true
bitmap_set(mm, blk, nbits, i, val) ==
  IF i >= nbits THEN Touch(mm, -1)
  ELSE IF bitmap_isset(mm, blk, nbits, i) = val THEN Touch(mm, BitCell(blk, i))
  ELSE Store(mm, BitCell(blk, i),
             IF val THEN Load(mm, BitCell(blk, i)) + 2 ^ (i % BitsPerCell)
             ELSE Load(mm, BitCell(blk, i)) - 2 ^ (i % BitsPerCell))

\* Marks the bit at the given index as available; the index must be less
\* than nbits and the bit must be marked allocated
bitmap_free(mm, blk, nbits, i) ==
  IF i >= nbits \/ ~bitmap_isset(mm, blk, nbits, i) THEN Touch(mm, -1)
  ELSE bitmap_set(mm, blk, nbits, i, FALSE)

\* the first nbits bits become 0
bitmap_init(mm, blk, nbits) ==
  [mm EXCEPT !.c = [x \in DOMAIN mm.c |->
     IF x >= BlockAddr(blk) /\ x < BlockAddr(blk + 1)
     THEN LET lo == (x - BlockAddr(blk)) * BitsPerCell
              k == IF nbits - lo >= BitsPerCell THEN BitsPerCell
                   ELSE IF nbits - lo <= 0 THEN 0 ELSE nbits - lo
          IN (mm.c[x] \div (2 ^ k)) * (2 ^ k)
     ELSE mm.c[x]]]

MinOf(S) == CHOOSE i \in S : \A k \in S : i <= k

ClearBits(mm, blk, nbits) == {i \in 0..(nbits - 1) : ~bitmap_isset(mm, blk, nbits, i)}

\* the lowest clear bit below nbits, or -1
FirstClear(mm, blk, nbits) ==
  IF ClearBits(mm, blk, nbits) = {} THEN -1 ELSE MinOf(ClearBits(mm, blk, nbits))

AllocAt(mm, blk, nbits, i) ==
  IF i < 0 THEN [mm |-> mm, index |-> -1]
  ELSE [mm |-> bitmap_set(mm, blk, nbits, i, TRUE), index |-> i]

\* Find the first unused bit, mark it in use and return its index
bitmap_alloc(mm, blk, nbits) == AllocAt(mm, blk, nbits, FirstClear(mm, blk, nbits))

(* ----------------------------------------------------------------- mkfs *)

\* the image file before it is formatted: all zero
BlankImage == [x \in 0..(ImgCells - 1) |-> 0]

RECURSIVE SetBits(_, _, _, _, _)
SetBits(mm, blk, nbits, from, n) ==
  IF n <= 0 THEN mm
  ELSE SetBits(bitmap_set(mm, blk, nbits, from, TRUE), blk, nbits, from + 1, n - 1)

\* memset(bmap, 0xff, VSFS_BLOCK_SIZE); bitmap_init(bmap, nbits)
mkfs_bitmap(mm, blk, nbits) ==
  bitmap_init(Memset(mm, BlockAddr(blk), WordMod - 1, VSFS_BLOCK_SIZE), blk, nbits)

\* the root inode's fields
mkfs_root(mm, now) ==
  Store(Store64(Store(Store(Store(mm, InodeAddr(VSFS_ROOT_INO) + I_MTIME, now),
                            InodeAddr(VSFS_ROOT_INO) + I_MODE, S_IFDIR_0777),
                      InodeAddr(VSFS_ROOT_INO) + I_NLINK, 2),
                InodeAddr(VSFS_ROOT_INO) + I_SIZE, VSFS_BLOCK_SIZE),
        InodeAddr(VSFS_ROOT_INO) + I_BLOCKS, 1)

\* entries 2.. of the root directory block get ino = VSFS_INO_MAX
RECURSIVE InitEntries(_, _, _)
InitEntries(mm, base, i) ==
  IF i >= div_round_up(VSFS_BLOCK_SIZE, SizeofDentry) THEN mm
  ELSE InitEntries(Store(mm, base + i * SizeofDentry + D_INO, VSFS_INO_MAX), base, i + 1)

\* "." and "..", then the unused entries, in the block at cell ents
mkfs_entries(mm, ents) ==
  InitEntries(Store(Store(Store(Store(mm, ents + D_INO, VSFS_ROOT_INO),
                                ents + D_NAME, NameDot),
                          ents + SizeofDentry + D_INO, VSFS_ROOT_INO),
                    ents + SizeofDentry + D_NAME, NameDotDot),
              ents, 2)

\* sb->free_blocks = sb->num_blocks - VSFS_DMAP_BLKNUM - ino_table_size - 2
\* free_blocks counted without the root directory block
mkfs_free_blocks_noroot(mm, ino_table_size) ==
  Store(mm, SbAddr(SB_FREE_BLOCKS),
        Load(mm, SbAddr(SB_NUM_BLOCKS)) - VSFS_DMAP_BLKNUM - ino_table_size - 1)

mkfs_free_blocks(mm, ino_table_size) ==
  Store(mm, SbAddr(SB_FREE_BLOCKS),
        Load(mm, SbAddr(SB_NUM_BLOCKS)) - VSFS_DMAP_BLKNUM - ino_table_size - 2)

\* the superblock is written last
mkfs_super(mm, size, n_inodes, nblks, ino_table_size) ==
  Store(mkfs_free_blocks(Store(Store(Store(Store64(Store(mm, SbAddr(SB_MAGIC), VSFS_MAGIC),
                                                   SbAddr(SB_SIZE), size),
                                           SbAddr(SB_NUM_INODES), n_inodes),
                                     SbAddr(SB_FREE_INODES), n_inodes - 1),
                               SbAddr(SB_NUM_BLOCKS), nblks),
                         ino_table_size),
        SbAddr(SB_DATA_REGION), VSFS_ITBL_BLKNUM + ino_table_size)

\* after the root directory's block was allocated (al = [mm, index])
mkfs_dir(al, size, n_inodes, nblks, ino_table_size) ==
  IF al.index < 0 THEN [mm |-> al.mm, ret |-> FALSE]
  ELSE [mm |-> mkfs_super(mkfs_entries(Store(al.mm, InodeAddr(VSFS_ROOT_INO) + I_DIRECT, al.index),
                                       BlockAddr(al.index)),
                          size, n_inodes, nblks, ino_table_size),
        ret |-> TRUE]

\* the two bitmaps: metadata blocks and the root inode marked allocated
mkfs_maps(mm, n_inodes, nblks, ino_table_size) ==
  bitmap_set(
    SetBits(SetBits(mkfs_bitmap(mkfs_bitmap(mm, VSFS_IMAP_BLKNUM, n_inodes),
                                VSFS_DMAP_BLKNUM, nblks),
                    VSFS_DMAP_BLKNUM, nblks, VSFS_SB_BLKNUM, 3),
            VSFS_DMAP_BLKNUM, nblks, VSFS_DMAP_BLKNUM + 1, ino_table_size),
    VSFS_IMAP_BLKNUM, n_inodes, VSFS_ROOT_INO, TRUE)

\* the root inode and its block, after clock_gettime succeeded
mkfs_layout(mm, size, n_inodes, nblks, ino_table_size, now) ==
  mkfs_dir(bitmap_alloc(mkfs_root(mm, now), VSFS_DMAP_BLKNUM, nblks),
           size, n_inodes, nblks, ino_table_size)

\* clock_gettime fails: goto out with ret = false
mkfs_clock(mm, size, n_inodes, nblks, ino_table_size, clock_ok, now) ==
  IF ~clock_ok /\ ~mm.f THEN [mm |-> mm, ret |-> FALSE]
  ELSE mkfs_layout(mm, size, n_inodes, nblks, ino_table_size, now)

\* mkfs(image, size, opts): [mm, ret]; clock_ok is whether clock_gettime
\* succeeds, now what it reads
mkfs(cells, size, n_inodes, clock_ok, now) ==
  IF n_inodes >= VSFS_INO_MAX
     \/ size \div VSFS_BLOCK_SIZE > VSFS_BLK_MAX
     \/ size \div VSFS_BLOCK_SIZE < VSFS_BLK_MIN
  THEN [mm |-> [c |-> cells, f |-> FALSE], ret |-> FALSE]
  ELSE mkfs_clock(mkfs_maps([c |-> cells, f |-> FALSE], n_inodes,
                            size \div VSFS_BLOCK_SIZE,
                            div_round_up(n_inodes, InodesPerBlock)),
                  size, n_inodes, size \div VSFS_BLOCK_SIZE,
                  div_round_up(n_inodes, InodesPerBlock), clock_ok, now)

(* --------------------------------------------------------------- engine *)
\* The context of a mount (fs_ctx): sb is block 0, ibmap block 1, dbmap
\* block 2, itable block 3 of the image.

sb_num_inodes(mm) == Load(mm, SbAddr(SB_NUM_INODES))
sb_free_inodes(mm) == Load(mm, SbAddr(SB_FREE_INODES))
sb_num_blocks(mm) == Load(mm, SbAddr(SB_NUM_BLOCKS))
sb_free_blocks(mm) == Load(mm, SbAddr(SB_FREE_BLOCKS))
sb_data_region(mm) == Load(mm, SbAddr(SB_DATA_REGION))

i_mode(mm, ino) == Load(mm, InodeAddr(ino) + I_MODE)
i_nlink(mm, ino) == Load(mm, InodeAddr(ino) + I_NLINK)
i_size(mm, ino) == Load(mm, InodeAddr(ino) + I_SIZE)
i_blocks(mm, ino) == Load(mm, InodeAddr(ino) + I_BLOCKS)
i_mtime(mm, ino) == Load(mm, InodeAddr(ino) + I_MTIME)
\* ino->i_direct[k]: no bound on k in the code
i_direct(mm, ino, k) == Load(mm, InodeAddr(ino) + I_DIRECT + k)
i_indirect(mm, ino) == Load(mm, InodeAddr(ino) + I_INDIRECT)

\* block_num = offset / VSFS_BLOCK_SIZE, offset being a uint32_t
BlockNum(offset) == (offset % WordMod) \div VSFS_BLOCK_SIZE

\* the cell that holds the block pointer get_address follows for offset
PointerCell(mm, ino, offset) ==
  IF BlockNum(offset) >= VSFS_NUM_DIRECT
  THEN BlockAddr(i_indirect(mm, ino)) + (BlockNum(offset) - VSFS_NUM_DIRECT) * SizeofBlkT
  ELSE InodeAddr(ino) + I_DIRECT + BlockNum(offset)

\* get_address(ino, offset): the image address of byte offset of the file
get_address(mm, ino, offset) ==
  BlockAddr(Load(mm, PointerCell(mm, ino, offset))) + ((offset % WordMod) % VSFS_BLOCK_SIZE)

\* the loads get_address makes: the inode's pointer, or the indirect entry
get_address_touch(mm, ino, offset) ==
  Touch(Touch(mm, InodeAddr(ino) + I_INDIRECT), PointerCell(mm, ino, offset))

\* get_dir_entry(ino, i): the address of entry i of the directory ino
get_dir_entry(mm, ino, i) == get_address(mm, ino, i * SizeofDentry)

d_ino(mm, i) == Load(mm, get_dir_entry(mm, VSFS_ROOT_INO, i) + D_INO)
d_name(mm, i) == Load(mm, get_dir_entry(mm, VSFS_ROOT_INO, i) + D_NAME)

Slots == 0..(DentriesPerBlock - 1)

\* the entries of the root directory that are in use and carry the name
MatchSlots(mm, leaf) ==
  {i \in Slots : d_ino(mm, i) # VSFS_INO_MAX /\ d_name(mm, i) = leaf}

\* the entries of the root directory that are unused
UnusedSlots(mm) == {i \in Slots : d_ino(mm, i) = VSFS_INO_MAX}

\* path_lookup(path, &ino): [err, ino]; a path is "/" (RootLeaf) or "/leaf"
path_lookup(mm, leaf) ==
  IF leaf = RootLeaf THEN [err |-> 0, ino |-> VSFS_ROOT_INO]
  ELSE IF MatchSlots(mm, leaf) # {}
       THEN [err |-> 0, ino |-> d_ino(mm, MinOf(MatchSlots(mm, leaf)))]
       ELSE [err |-> -1, ino |-> VSFS_INO_MAX]

\* vsfs_statfs
vsfs_statfs(mm) ==
  [ret |-> 0,
   f_bsize |-> VSFS_BLOCK_SIZE, f_frsize |-> VSFS_BLOCK_SIZE,
   f_blocks |-> sb_num_blocks(mm),
   f_bfree |-> sb_free_blocks(mm), f_bavail |-> sb_free_blocks(mm),
   f_files |-> sb_num_inodes(mm),
   f_ffree |-> sb_free_inodes(mm), f_favail |-> sb_free_inodes(mm),
   f_namemax |-> VSFS_NAME_MAX]

\* vsfs_getattr; the path "/leaf" has 1 + NameLen(leaf) characters

getattr_stat(mm, l) ==
  IF l.err = -1 THEN [ret |-> ENOENT]
  ELSE [ret |-> 0,
        st_mode |-> i_mode(mm, l.ino),
        st_nlink |-> i_nlink(mm, l.ino),
        st_size |-> i_size(mm, l.ino),
        st_blocks |-> div_round_up(i_size(mm, l.ino), SectorSize),
        st_mtim |-> i_mtime(mm, l.ino)]

vsfs_getattr(mm, leaf) ==
  IF 1 + NameLen(leaf) >= VSFS_PATH_MAX \/ 1 + NameLen(leaf) >= VSFS_NAME_MAX + 1
  THEN [ret |-> ENAMETOOLONG]
  ELSE getattr_stat(mm, path_lookup(mm, leaf))

\* sb->free_inodes += d and sb->free_blocks += d
AddFreeInodes(mm, d) == Store(mm, SbAddr(SB_FREE_INODES), sb_free_inodes(mm) + d)
AddFreeBlocks(mm, d) == Store(mm, SbAddr(SB_FREE_BLOCKS), sb_free_blocks(mm) + d)

\* the new inode's fields
create_fields(mm, new_inode, mode, now) ==
  Store(Store(Store(Store(Store64(mm, new_inode + I_SIZE, 0),
                          new_inode + I_BLOCKS, 0),
                    new_inode + I_MODE, mode),
              new_inode + I_NLINK, 1),
        new_inode + I_MTIME, now)

\* the entry at cell e becomes (new_ino, leaf); the parent's mtime is set
create_fill(mm, e, new_ino, leaf, now) ==
  Store(Store(Store(mm, e + D_INO, new_ino), e + D_NAME, leaf),
        InodeAddr(VSFS_ROOT_INO) + I_MTIME, now)

\* "Add inode to parent dentry": the first unused entry, or -ENOSPC
create_entry(mm, new_ino, leaf, now) ==
  IF UnusedSlots(mm) = {} THEN [mm |-> mm, ret |-> ENOSPC]
  ELSE [mm |-> create_fill(mm, get_dir_entry(mm, VSFS_ROOT_INO, MinOf(UnusedSlots(mm))),
                           new_ino, leaf, now),
        ret |-> 0]

\* after bitmap_alloc on the inode bitmap (al = [mm, index])
create_inode(al, leaf, mode, now) ==
  IF al.index < 0 THEN [mm |-> al.mm, ret |-> ENOSPC]
  ELSE create_entry(
         create_fields(
           AddFreeInodes(
             Memset(bitmap_set(al.mm, VSFS_IMAP_BLKNUM, sb_num_inodes(al.mm), al.index, TRUE),
                    InodeAddr(al.index), 0, SizeofInode),
             -1),
           InodeAddr(al.index), mode, now),
         al.index, leaf, now)

\* vsfs_create(path, mode): [mm, ret]
vsfs_create(mm, leaf, mode, now) ==
  IF sb_free_inodes(mm) = 0 THEN [mm |-> mm, ret |-> ENOSPC]
  ELSE create_inode(bitmap_alloc(mm, VSFS_IMAP_BLKNUM, sb_num_inodes(mm)), leaf, mode, now)

\* inode->i_nlink--
unlink_nlink(mm, ino) ==
  Store(Touch(mm, InodeAddr(ino)), InodeAddr(ino) + I_NLINK, i_nlink(mm, ino) - 1)

\* "Free the inode" when the link count reached 0
unlink_free_inode(mm, ino) ==
  IF i_nlink(mm, ino) = 0
  THEN AddFreeInodes(bitmap_free(mm, VSFS_IMAP_BLKNUM, sb_num_inodes(mm), ino), 1)
  ELSE mm

\* "Free the blocks": i_direct[i] for i < i_blocks
RECURSIVE UnlinkFreeBlocks(_, _, _)
UnlinkFreeBlocks(mm, ino, i) ==
  IF mm.f \/ ~(i < i_blocks(mm, ino)) THEN mm
  ELSE UnlinkFreeBlocks(
         AddFreeBlocks(bitmap_free(mm, VSFS_DMAP_BLKNUM, sb_num_blocks(mm),
                                   i_direct(mm, ino, i)), 1),
         ino, i + 1)

\* memset(dir_entry, 0, n) starts at the ino field of the entry at cell e
DentryZero(mm, e, n) ==
  IF n <= 0 THEN mm
  ELSE IF n > SizeofInoT THEN Store(Store(mm, e + D_INO, 0), e + D_NAME, 0)
  ELSE Store(mm, e + D_INO, 0)

\* the entry at cell e with its name zeroed and dir_entry->ino left as the
\* memset wrote it
unlink_zeroed(mm, e, now) ==
  Store(DentryZero(mm, e, NameLen(Load(mm, e + D_NAME))),
        InodeAddr(VSFS_ROOT_INO) + I_MTIME, now)

\* the entry at cell e is cleared; the parent's mtime is set
unlink_clear(mm, e, now) ==
  Store(Store(DentryZero(mm, e, NameLen(Load(mm, e + D_NAME))), e + D_INO, VSFS_INO_MAX),
        InodeAddr(VSFS_ROOT_INO) + I_MTIME, now)

\* "Find the dir entry, set its ino to max and name to nothing"
unlink_entry(mm, leaf, now) ==
  IF MatchSlots(mm, leaf) = {} THEN [mm |-> mm, ret |-> 0]
  ELSE [mm |-> unlink_clear(mm, get_dir_entry(mm, VSFS_ROOT_INO, MinOf(MatchSlots(mm, leaf))),
                            now),
        ret |-> 0]

unlink_inode(mm, ino, leaf, now) ==
  unlink_entry(UnlinkFreeBlocks(unlink_free_inode(unlink_nlink(mm, ino), ino), ino, 0),
               leaf, now)

\* vsfs_unlink(path): [mm, ret]
vsfs_unlink(mm, leaf, now) == unlink_inode(mm, path_lookup(mm, leaf).ino, leaf, now)

\* the time stored in the root inode, whatever inode the path names
utimens_set_root(mm, ino, v) == Store(mm, InodeAddr(VSFS_ROOT_INO) + I_MTIME, v)

utimens_set(mm, ino, v) == Store(mm, InodeAddr(ino) + I_MTIME, v)

\* vsfs_utimens(path, times): request is "omit", "now" or "set" (to t)
vsfs_utimens(mm, leaf, request, t, now) ==
  IF request = "omit" THEN [mm |-> mm, ret |-> 0]
  ELSE [mm |-> utimens_set(mm, path_lookup(mm, leaf).ino,
                           IF request = "now" THEN now ELSE t),
        ret |-> 0]

\* one pass of the allocation loop of vsfs_truncate, after bitmap_alloc
truncate_alloc_one(al) ==
  IF al.index < 0 THEN [mm |-> al.mm, ok |-> FALSE]
  ELSE [mm |-> AddFreeBlocks(bitmap_set(al.mm, VSFS_DMAP_BLKNUM, sb_num_blocks(al.mm),
                                        al.index, TRUE), -1),
        ok |-> TRUE]

\* the allocation loop of vsfs_truncate: [mm, ok]; the block number that
\* bitmap_alloc hands out is stored nowhere
RECURSIVE TruncateAlloc(_, _)
TruncateAlloc(r, n) ==
  IF n <= 0 \/ r.mm.f \/ ~r.ok THEN r
  ELSE TruncateAlloc(
         truncate_alloc_one(bitmap_alloc(r.mm, VSFS_DMAP_BLKNUM, sb_num_blocks(r.mm))),
         n - 1)

\* the freeing loop of vsfs_truncate
RECURSIVE TruncateFree(_, _, _, _)
TruncateFree(mm, ino, i, n) ==
  IF i >= n \/ mm.f THEN mm
  ELSE TruncateFree(
         AddFreeBlocks(bitmap_free(mm, VSFS_DMAP_BLKNUM, sb_num_blocks(mm),
                                   i_direct(mm, ino, VSFS_NUM_DIRECT - 1 - i)), 1),
         ino, i + 1, n)

MinNat(a, b) == IF a > b THEN b ELSE a

\* "Set new file size"
truncate_finish(r, ino, size, now) ==
  IF ~r.ok THEN [mm |-> r.mm, ret |-> ENOSPC]
  ELSE [mm |-> Store(Store(Store64(r.mm, InodeAddr(ino) + I_SIZE, size),
                           InodeAddr(ino) + I_BLOCKS, div_round_up(size, VSFS_BLOCK_SIZE)),
                     InodeAddr(ino) + I_MTIME, now),
        ret |-> 0]

\* allocate more blocks, or free blocks
truncate_blocks(mm, ino, size, now) ==
  truncate_finish(
    IF div_round_up(size, VSFS_BLOCK_SIZE) > i_blocks(mm, ino)
    THEN TruncateAlloc([mm |-> mm, ok |-> TRUE],
                       MinNat(div_round_up(size, VSFS_BLOCK_SIZE) - i_blocks(mm, ino),
                              VSFS_NUM_DIRECT))
    ELSE [mm |-> TruncateFree(mm, ino, 0,
                              MinNat(i_blocks(mm, ino) - div_round_up(size, VSFS_BLOCK_SIZE),
                                     VSFS_NUM_DIRECT)),
          ok |-> TRUE],
    ino, size, now)

\* "zero out the uninitialized range"
truncate_zero(mm, ino, size) ==
  IF size > i_size(mm, ino)
  THEN Memset(get_address_touch(mm, ino, i_size(mm, ino)),
              get_address(mm, ino, i_size(mm, ino)), 0, size - i_size(mm, ino))
  ELSE mm

truncate_inode(mm, ino, size, now) ==
  IF size = i_size(mm, ino) THEN [mm |-> mm, ret |-> 0]
  ELSE truncate_blocks(truncate_zero(mm, ino, size), ino, size, now)

\* the inode of the path: a lookup, and a load from the inode it names
LookupInode(mm, ino) == Touch(mm, InodeAddr(ino))

\* vsfs_truncate(path, size): [mm, ret]
vsfs_truncate(mm, leaf, size, now) ==
  IF div_round_up(size, VSFS_BLOCK_SIZE) > VSFS_NUM_DIRECT + (VSFS_BLOCK_SIZE \div SizeofBlkT)
  THEN [mm |-> mm, ret |-> EFBIG]
  ELSE truncate_inode(LookupInode(mm, path_lookup(mm, leaf).ino),
                      path_lookup(mm, leaf).ino, size, now)

\* the bytes handed back: n of them from cell a
read_copy(mm, a, n) ==
  [mm |-> TouchRange(mm, a, n), ret |-> n, out |-> CopyOut(mm, a, n)]

read_inode(mm, ino, size, offset) ==
  IF i_size(mm, ino) < offset THEN [mm |-> mm, ret |-> 0, out |-> << >>]
  ELSE read_copy(get_address_touch(mm, ino, offset), get_address(mm, ino, offset),
                 IF i_size(mm, ino) < offset + size THEN i_size(mm, ino) - offset ELSE size)

\* vsfs_read(path, buf, size, offset): [mm, ret, out]
vsfs_read(mm, leaf, size, offset) ==
  read_inode(LookupInode(mm, path_lookup(mm, leaf).ino), path_lookup(mm, leaf).ino,
             size, offset)

\* "update inode": the branch of vsfs_write that does not call vsfs_truncate
write_grow(mm, ino, size) ==
  [mm |-> Store(Store64(mm, InodeAddr(ino) + I_SIZE, i_size(mm, ino) + size),
                InodeAddr(ino) + I_BLOCKS,
                i_blocks(mm, ino) + div_round_up(size, VSFS_BLOCK_SIZE)),
   ret |-> 0]

\* "do the write to the data block", "update last modified time"
write_copy(t, ino, buf, offset, now) ==
  IF t.ret < 0 THEN t
  ELSE [mm |-> Store(Memcpy(get_address_touch(t.mm, ino, offset),
                            get_address(t.mm, ino, offset), buf),
                     InodeAddr(ino) + I_MTIME, now),
        ret |-> Len(buf)]

write_inode(mm, ino, leaf, buf, offset, now) ==
  IF i_size(mm, ino) < offset THEN [mm |-> mm, ret |-> EFBIG]
  ELSE write_copy(IF i_size(mm, ino) < offset + Len(buf)
                  THEN vsfs_truncate(mm, leaf, offset + Len(buf), now)
                  ELSE write_grow(mm, ino, Len(buf)),
                  ino, buf, offset, now)

\* vsfs_write(path, buf, size, offset): [mm, ret]
vsfs_write(mm, leaf, buf, offset, now) ==
  write_inode(LookupInode(mm, path_lookup(mm, leaf).ino), path_lookup(mm, leaf).ino,
              leaf, buf, offset, now)

\* vsfs_readdir("/", filler): the names handed to the filler, in order, and
\* the return; the filler reports full on call number full_at (0: never)
RECURSIVE ReaddirFrom(_, _, _, _)
ReaddirFrom(mm, i, names, full_at) ==
  IF i >= DentriesPerBlock THEN [ret |-> 0, names |-> names]
  ELSE IF d_ino(mm, i) # VSFS_INO_MAX
       THEN IF Len(names) + 1 = full_at
            THEN [ret |-> ENOMEM, names |-> Append(names, d_name(mm, i))]
            ELSE ReaddirFrom(mm, i + 1, Append(names, d_name(mm, i)), full_at)
       ELSE ReaddirFrom(mm, i + 1, names, full_at)

\* a listing that starts at the second entry of the block
readdir_second(mm, full_at) == ReaddirFrom(mm, 1, << >>, full_at)

vsfs_readdir(mm, full_at) == ReaddirFrom(mm, 0, << >>, full_at)

(* ------------------------------------------------------------- the mount *)

\* image:   the cells of the mapped image file
\* mounted: the file system process is alive
\* nops:    operations issued so far
\* last:    the last operation, its arguments and what it returned
\* ledger:  the free counters as they were before the latest create, with
\*          the name created; cleared by anything but a successful write or
\*          truncate of that file, closed by its unlink
\* image: the bytes of the image file; mounted: a vsfs process serves it;
\* nops: the operations issued so far; last: the last operation and what it
\* returned; ledger: the counters before the create of a file that has only
\* been truncated and written since; live: the names created and not since
\* unlinked; fmt: the inode count of the format that left the image as it is;
\* ref: for each name the bytes a sparse byte array holds after the
\* successful truncates and writes on it since its create
VARIABLES image, mounted, nops, last, ledger, live, fmt, ref

vars == <<image, mounted, nops, last, ledger, live, fmt, ref>>

Mem == [c |-> image, f |-> FALSE]

\* clock_gettime(CLOCK_REALTIME) during the operation being issued
Now == nops + 1

\* sizes handed to truncate
TruncSizes ==
  {0, 1, VSFS_BLOCK_SIZE \div 2, VSFS_BLOCK_SIZE + 1, 2 * VSFS_BLOCK_SIZE + 1,
   (VSFS_NUM_DIRECT + VSFS_BLOCK_SIZE \div SizeofBlkT) * VSFS_BLOCK_SIZE + 1, WordMod - 6}
\* offsets and lengths handed to read and write; FUSE hands over ranges
\* that lie in one block
Offsets == {0, 1, VSFS_BLOCK_SIZE \div 2}
Lengths == {1, VSFS_BLOCK_SIZE \div 2}
OneBlock(offset, size) ==
  offset \div VSFS_BLOCK_SIZE = (offset + size - 1) \div VSFS_BLOCK_SIZE
\* the first byte of a written buffer; byte i is first + i - 1
FirstBytes == {1, 9}
Buf(first, size) == [i \in 1..size |-> (first + i - 1) % WordMod]
\* timestamps handed to utimens
Stamps == {7, 9}

NoLedger == [name |-> RootLeaf, fi |-> 0, fb |-> 0, closed |-> FALSE]

NoFormat == [ok |-> FALSE, n |-> 0]

NoBytes == [leaf \in FileNames |-> << >>]

\* the byte array cut or zero-extended to n bytes
RefTruncate(bytes, n) == [i \in 1..n |-> IF i <= Len(bytes) THEN bytes[i] ELSE 0]

\* the byte array with buf laid over it from offset on
RefWrite(bytes, buf, offset) ==
  [i \in 1..(IF Len(bytes) >= offset + Len(buf) THEN Len(bytes) ELSE offset + Len(buf)) |->
     IF i > offset /\ i <= offset + Len(buf) THEN buf[i - offset]
     ELSE IF i <= Len(bytes) THEN bytes[i] ELSE 0]

\* the byte arrays after the operation of record rec succeeded
RefAfter(bytes, rec) ==
  IF rec.op = "truncate" /\ rec.ret = 0
  THEN [bytes EXCEPT ![rec.name] = RefTruncate(@, rec.size)]
  ELSE IF rec.op = "write" /\ rec.ret = rec.size
  THEN [bytes EXCEPT ![rec.name] = RefWrite(@, rec.buf, rec.offset)]
  ELSE IF rec.op \in {"create", "unlink"} /\ rec.ret = 0
  THEN [bytes EXCEPT ![rec.name] = << >>]
  ELSE bytes

Rec(op, name, size, offset, buf, ret, out) ==
  [op |-> op, name |-> name, size |-> size, offset |-> offset,
   buf |-> buf, ret |-> ret, out |-> out]

Init ==
  /\ image = mkfs(BlankImage, ImgCells, NumInodes, TRUE, 0).mm.c
  /\ mounted = TRUE
  /\ nops = 0
  /\ last = Rec("mkfs", RootLeaf, ImgCells, 0, << >>, 0, << >>)
  /\ ledger = NoLedger
  /\ live = {}
  /\ fmt = [ok |-> TRUE, n |-> NumInodes]
  /\ ref = NoBytes

\* getattr finds the path and reports a regular file: what FUSE has
\* verified before it calls unlink, truncate, read, write
IsFile(leaf) ==
  /\ path_lookup(Mem, leaf).err = 0
  /\ i_mode(Mem, path_lookup(Mem, leaf).ino) = S_IFREG

\* the operation ends: its stores are in the image; a fault ends the mount
Finish(r, rec) ==
  /\ image' = r.mm.c
  /\ mounted' = ~r.mm.f
  /\ nops' = nops + 1
  /\ last' = IF r.mm.f THEN [rec EXCEPT !.ret = Crashed] ELSE rec
  /\ live' = IF r.mm.f \/ rec.ret # 0 THEN live
             ELSE IF rec.op = "create" THEN live \cup {rec.name}
             ELSE IF rec.op = "unlink" THEN live \ {rec.name}
             ELSE live
  /\ fmt' = IF r.mm.c = image THEN fmt ELSE NoFormat
  /\ ref' = IF r.mm.f THEN ref ELSE RefAfter(ref, rec)

Ready == mounted /\ nops < MaxOps

Create(leaf) ==
  /\ Ready
  /\ path_lookup(Mem, leaf).err = -1
  /\ \E r \in {vsfs_create(Mem, leaf, S_IFREG, Now)} :
        /\ Finish(r, Rec("create", leaf, 0, 0, << >>, r.ret, << >>))
        /\ ledger' = IF r.ret = 0 /\ ~r.mm.f
                     THEN [name |-> leaf, fi |-> sb_free_inodes(Mem),
                           fb |-> sb_free_blocks(Mem), closed |-> FALSE]
                     ELSE NoLedger

Unlink(leaf) ==
  /\ Ready
  /\ IsFile(leaf)
  /\ \E r \in {vsfs_unlink(Mem, leaf, Now)} :
        /\ Finish(r, Rec("unlink", leaf, 0, 0, << >>, r.ret, << >>))
        /\ ledger' = IF ledger.name = leaf /\ ~ledger.closed /\ r.ret = 0 /\ ~r.mm.f
                     THEN [ledger EXCEPT !.closed = TRUE]
                     ELSE NoLedger

KeepLedger(leaf, ok) ==
  ledger' = IF ledger.name = leaf /\ ~ledger.closed /\ ok THEN ledger ELSE NoLedger

Truncate(leaf, size) ==
  /\ Ready
  /\ IsFile(leaf)
  /\ \E r \in {vsfs_truncate(Mem, leaf, size, Now)} :
        /\ Finish(r, Rec("truncate", leaf, size, 0, << >>, r.ret, << >>))
        /\ KeepLedger(leaf, r.ret = 0 /\ ~r.mm.f)

Write(leaf, first, size, offset) ==
  /\ Ready
  /\ IsFile(leaf)
  /\ OneBlock(offset, size)
  /\ \E r \in {vsfs_write(Mem, leaf, Buf(first, size), offset, Now)} :
        /\ Finish(r, Rec("write", leaf, size, offset, Buf(first, size), r.ret, << >>))
        /\ KeepLedger(leaf, r.ret = size /\ ~r.mm.f)

Read(leaf, size, offset) ==
  /\ Ready
  /\ IsFile(leaf)
  /\ OneBlock(offset, size)
  /\ \E r \in {vsfs_read(Mem, leaf, size, offset)} :
        /\ Finish(r, Rec("read", leaf, size, offset, << >>, r.ret, r.out))
        /\ ledger' = NoLedger

Utimens(leaf, request, t) ==
  /\ Ready
  /\ path_lookup(Mem, leaf).err = 0
  /\ \E r \in {vsfs_utimens(Mem, leaf, request, t, Now)} :
        /\ Finish(r, Rec("utimens", leaf, t, 0, << >>, r.ret, <<request>>))
        /\ ledger' = NoLedger

Getattr(leaf) ==
  /\ Ready
  /\ \E g \in {vsfs_getattr(Mem, leaf)} :
        /\ Finish([mm |-> Mem], Rec("getattr", leaf, 0, 0, << >>, g.ret,
                                     IF g.ret = 0 THEN <<g.st_size>> ELSE << >>))
        /\ ledger' = NoLedger

Statfs ==
  /\ Ready
  /\ \E st \in {vsfs_statfs(Mem)} :
        Finish([mm |-> Mem], Rec("statfs", RootLeaf, 0, 0, << >>, st.ret,
                                 <<st.f_bsize, st.f_blocks, st.f_bfree, st.f_bavail,
                                   st.f_files, st.f_ffree, st.f_favail>>))
  /\ ledger' = NoLedger

Readdir(full_at) ==
  /\ Ready
  /\ \E r \in {vsfs_readdir(Mem, full_at)} :
        /\ Finish([mm |-> Mem], Rec("readdir", RootLeaf, full_at, 0, << >>, r.ret, r.names))
        /\ ledger' = NoLedger

Next ==
  \/ \E leaf \in FileNames : Create(leaf)
  \/ \E leaf \in FileNames : Unlink(leaf)
  \/ \E leaf \in FileNames, size \in TruncSizes : Truncate(leaf, size)
  \/ \E leaf \in FileNames, first \in FirstBytes, size \in Lengths, offset \in Offsets :
       Write(leaf, first, size, offset)
  \/ \E leaf \in FileNames, size \in Lengths, offset \in Offsets : Read(leaf, size, offset)
  \/ \E leaf \in FileNames \cup {RootLeaf}, request \in {"omit", "now", "set"}, t \in Stamps :
       Utimens(leaf, request, t)
  \/ \E leaf \in FileNames \cup {RootLeaf} : Getattr(leaf)
  \/ Statfs
  \/ \E full_at \in {0, 1} : Readdir(full_at)

Spec == Init /\ [][Next]_vars

\* the mount under creates, unlinks and listings only
NextDir ==
  \/ \E leaf \in FileNames : Create(leaf)
  \/ \E leaf \in FileNames : Unlink(leaf)
  \/ \E full_at \in {0, 1} : Readdir(full_at)

SpecDir == Init /\ [][NextDir]_vars

(* -------------------------------------------------------- the formatter *)

\* an image file that was never formatted and is not zero
NoiseImage == [x \in 0..(ImgCells - 1) |-> (x + 1) % WordMod]

\* the inode count whose table takes every block after the bitmaps
FullTable == (ImgBlocks - VSFS_ITBL_BLKNUM) * InodesPerBlock

\* mkfs -i
InodeCounts == {0, 1, 2, NumInodes, FullTable, VSFS_INO_MAX}

\* what main can return when it reads ret before any assignment to it
ExitCodes == {0, 1, 2}

\* -h returns at once; else the image path and a nonzero -i are required
parse_args(help, path_given, n_inodes) ==
  help \/ (path_given /\ n_inodes # 0)

vsfs_is_present(cells) == cells[SbAddr(SB_MAGIC)] = VSFS_MAGIC

\* if (opts.zero) memset(image, 0, fsize)
main_zero(cells, zero) ==
  IF zero THEN Memset([c |-> cells, f |-> FALSE], 0, 0, ImgCells).c ELSE cells

\* after mkfs returned r; ret = 0 on success is the only assignment to ret
main_end(r) ==
  IF r.mm.f THEN [c |-> r.mm.c, ret |-> {Crashed}, stage |-> "abort"]
  ELSE IF ~r.ret THEN [c |-> r.mm.c, ret |-> ExitCodes, stage |-> "mkfs"]
  ELSE [c |-> r.mm.c, ret |-> {0}, stage |-> "ok"]

\* main of the formatter: [c, ret, stage], c the image file afterwards, ret
\* the exit codes it can return, stage the statement it left from
mkfs_main(cells, help, path_given, map_ok, force, zero, n_inodes, clock_ok, now) ==
  IF ~parse_args(help, path_given, n_inodes)
  THEN [c |-> cells, ret |-> {1}, stage |-> "args"]
  ELSE IF help THEN [c |-> cells, ret |-> {0}, stage |-> "help"]
  ELSE IF ~map_ok THEN [c |-> cells, ret |-> {1}, stage |-> "map"]
  ELSE IF ~force /\ vsfs_is_present(cells)
  THEN [c |-> cells, ret |-> ExitCodes, stage |-> "present"]
  ELSE main_end(mkfs(main_zero(cells, zero), ImgCells, n_inodes, clock_ok, now))

\* the mount accepts the image: its magic and its recorded size
fs_ctx_init(cells, size) ==
  cells[SbAddr(SB_MAGIC)] = VSFS_MAGIC /\ cells[SbAddr(SB_SIZE)] = size

Flag(b) == IF b THEN 1 ELSE 0

InitMkfs ==
  /\ image \in {BlankImage, NoiseImage}
  /\ mounted = FALSE
  /\ nops = 0
  /\ last = Rec("none", RootLeaf, 0, 0, << >>, 0, << >>)
  /\ ledger = NoLedger
  /\ live = {}
  /\ fmt = NoFormat
  /\ ref = NoBytes

MkfsMain(help, path_given, map_ok, force, zero, n_inodes, clock_ok) ==
  /\ ~mounted /\ nops < MaxOps
  /\ \E r \in {mkfs_main(image, help, path_given, map_ok, force, zero, n_inodes,
                         clock_ok, Now)} :
        /\ image' = r.c
        /\ \E code \in r.ret :
              last' = Rec("mkfs_main", RootLeaf, n_inodes, 0, <<Flag(force), Flag(zero)>>,
                          code, <<r.stage>>)
        /\ fmt' = IF r.stage = "ok" THEN [ok |-> TRUE, n |-> n_inodes]
                  ELSE IF r.c = image THEN fmt ELSE NoFormat
  /\ mounted' = FALSE
  /\ nops' = nops + 1
  /\ ledger' = NoLedger
  /\ live' = {}
  /\ ref' = NoBytes

\* vsfs is started on the image file
Mount ==
  /\ ~mounted /\ nops < MaxOps
  /\ mounted' = fs_ctx_init(image, ImgCells)
  /\ nops' = nops + 1
  /\ last' = Rec("mount", RootLeaf, ImgCells, 0, << >>,
                 IF fs_ctx_init(image, ImgCells) THEN 0 ELSE 1, << >>)
  /\ UNCHANGED <<image, ledger, live, fmt, ref>>

\* the command lines and environments the formatter is run with: -h, no
\* image path, an image that cannot be mapped, and every combination of
\* -f, -z, -i and the clock on an image that can
Runs ==
  {[help |-> TRUE, path_given |-> FALSE, map_ok |-> TRUE, force |-> FALSE,
    zero |-> FALSE, n_inodes |-> 0, clock_ok |-> TRUE],
   [help |-> FALSE, path_given |-> FALSE, map_ok |-> TRUE, force |-> FALSE,
    zero |-> FALSE, n_inodes |-> NumInodes, clock_ok |-> TRUE],
   [help |-> FALSE, path_given |-> TRUE, map_ok |-> FALSE, force |-> FALSE,
    zero |-> FALSE, n_inodes |-> NumInodes, clock_ok |-> TRUE]}
  \cup [help : {FALSE}, path_given : {TRUE}, map_ok : {TRUE}, force : BOOLEAN,
        zero : BOOLEAN, n_inodes : InodeCounts, clock_ok : BOOLEAN]

NextMkfs ==
  \/ \E run \in Runs :
       MkfsMain(run.help, run.path_given, run.map_ok, run.force, run.zero,
                run.n_inodes, run.clock_ok)
  \/ Mount
  \/ Statfs

SpecMkfs == InitMkfs /\ [][NextMkfs]_vars

(* --------------------------------------------------------------- claims *)
\* The properties below are stated over the image of a live mount: Mem is
\* the image before a step, MemNext the image after it.

MemNext == [c |-> image', f |-> FALSE]

\* clear bits of the inode bitmap over 0..num_inodes-1
InodeClearBits(mm) == Cardinality(ClearBits(mm, VSFS_IMAP_BLKNUM, sb_num_inodes(mm)))

\* clear bits of the data bitmap over data_region..num_blocks-1
DataClearBits(mm) ==
  Cardinality({b \in ClearBits(mm, VSFS_DMAP_BLKNUM, sb_num_blocks(mm)) :
                 b >= sb_data_region(mm)})

AllocatedInodes(mm) ==
  {i \in 0..(sb_num_inodes(mm) - 1) :
     bitmap_isset(mm, VSFS_IMAP_BLKNUM, sb_num_inodes(mm), i)}

\* the inodes the root directory names
LinkedInodes(mm) == {d_ino(mm, i) : i \in {s \in Slots : d_ino(mm, s) # VSFS_INO_MAX}}

\* the allocated inodes that are in use: the root and the files in it
LiveInodes(mm) == AllocatedInodes(mm) \cap LinkedInodes(mm)

\* ceil(size / VSFS_BLOCK_SIZE), in unbounded arithmetic
CeilBlocks(size) == (size + VSFS_BLOCK_SIZE - 1) \div VSFS_BLOCK_SIZE

\* the block number the inode holds for file block k
BlockPointer(mm, ino, k) == Load(mm, PointerCell(mm, ino, k * VSFS_BLOCK_SIZE))

\* the largest size truncate accepts
MaxFileSize == (VSFS_NUM_DIRECT + VSFS_BLOCK_SIZE \div SizeofBlkT) * VSFS_BLOCK_SIZE

AllZero(out) == \A i \in 1..Len(out) : out[i] = 0

\* the inode number the path names before the step
InoOf(leaf) == path_lookup(Mem, leaf).ino

\* the bytes of the whole file, as read hands them back
Contents(mm, leaf) ==
  vsfs_read(mm, leaf, i_size(mm, path_lookup(mm, leaf).ino), 0).out

BlockCells(mm, blk) == [x \in 0..(VSFS_BLOCK_SIZE - 1) |-> Load(mm, BlockAddr(blk) + x)]

RootEntries(mm) == [i \in Slots |-> <<d_ino(mm, i), d_name(mm, i)>>]

\* C1: a write to an existing regular file returns the requested length
\* and a read of the same range directly after it returns that length and
\* the bytes written.
C1_RoundTrip ==
  (mounted /\ last.op = "write") =>
    /\ last.ret = last.size
    /\ vsfs_read(Mem, last.name, last.size, last.offset).ret = last.size
    /\ vsfs_read(Mem, last.name, last.size, last.offset).out = last.buf

\* C2: when truncate to N > S (S the size before) succeeds, reading N - S
\* bytes at offset S yields N - S zero bytes and getattr reports size N.
C2_ZeroFillStep ==
  (mounted /\ mounted' /\ last'.op = "truncate" /\ last'.ret = 0
     /\ last'.size > i_size(Mem, InoOf(last'.name)) /\ last'.size <= MaxFileSize) =>
    /\ vsfs_read(MemNext, last'.name, last'.size - i_size(Mem, InoOf(last'.name)),
                 i_size(Mem, InoOf(last'.name))).ret
         = last'.size - i_size(Mem, InoOf(last'.name))
    /\ AllZero(vsfs_read(MemNext, last'.name, last'.size - i_size(Mem, InoOf(last'.name)),
                         i_size(Mem, InoOf(last'.name))).out)
    /\ vsfs_getattr(MemNext, last'.name).ret = 0
    /\ vsfs_getattr(MemNext, last'.name).st_size = last'.size
C2_ZeroFill == [][C2_ZeroFillStep]_vars

\* C3: after format and after every operation, free_inodes equals the
\* number of clear bits of the inode bitmap over 0..num_inodes-1.
C3_FreeInodes == mounted => sb_free_inodes(Mem) = InodeClearBits(Mem)

\* C4: after format and after every operation, free_blocks equals the
\* number of clear bits of the data bitmap over data_region..num_blocks-1.
C4_FreeBlocks == mounted => sb_free_blocks(Mem) = DataClearBits(Mem)

\* C5: after every operation, every allocated inode in use has
\* block count = ceil(size / block size).
C5_BlockCount ==
  mounted => \A i \in LiveInodes(Mem) : i_blocks(Mem, i) = CeilBlocks(i_size(Mem, i))

\* C6: after every operation, every block an allocated inode in use
\* references (file block indices 0..block_count-1) lies in
\* data_region..num_blocks-1 and has its bit set in the data bitmap.
C6_BlocksInDataRegion ==
  mounted =>
    \A i \in LiveInodes(Mem) : \A k \in 0..(i_blocks(Mem, i) - 1) :
      /\ sb_data_region(Mem) <= BlockPointer(Mem, i, k)
      /\ BlockPointer(Mem, i, k) < sb_num_blocks(Mem)
      /\ bitmap_isset(Mem, VSFS_DMAP_BLKNUM, sb_num_blocks(Mem), BlockPointer(Mem, i, k))

\* C7: a create that returns ENOSPC leaves the inode bitmap, free_inodes,
\* the data bitmap and every root directory entry as they were.
C7_CreateNoSpaceStep ==
  (mounted /\ mounted' /\ last'.op = "create" /\ last'.ret = ENOSPC) =>
    /\ BlockCells(MemNext, VSFS_IMAP_BLKNUM) = BlockCells(Mem, VSFS_IMAP_BLKNUM)
    /\ sb_free_inodes(MemNext) = sb_free_inodes(Mem)
    /\ BlockCells(MemNext, VSFS_DMAP_BLKNUM) = BlockCells(Mem, VSFS_DMAP_BLKNUM)
    /\ RootEntries(MemNext) = RootEntries(Mem)
C7_CreateNoSpace == [][C7_CreateNoSpaceStep]_vars

\* C8: an extending truncate that needs more blocks than the data bitmap
\* has free and returns ENOSPC leaves the data bitmap, free_blocks, the
\* inode's size, block count and block pointers and the file's contents as
\* they were.
C8_TruncateNoSpaceStep ==
  (mounted /\ mounted' /\ last'.op = "truncate" /\ last'.ret = ENOSPC
     /\ last'.size > i_size(Mem, InoOf(last'.name))
     /\ DataClearBits(Mem) < CeilBlocks(last'.size) - i_blocks(Mem, InoOf(last'.name))) =>
    /\ BlockCells(MemNext, VSFS_DMAP_BLKNUM) = BlockCells(Mem, VSFS_DMAP_BLKNUM)
    /\ sb_free_blocks(MemNext) = sb_free_blocks(Mem)
    /\ \A k \in 0..(SizeofInode - 1) :
         k # I_MTIME =>
           Load(MemNext, InodeAddr(InoOf(last'.name)) + k)
             = Load(Mem, InodeAddr(InoOf(last'.name)) + k)
    /\ Contents(MemNext, last'.name) = Contents(Mem, last'.name)
C8_TruncateNoSpace == [][C8_TruncateNoSpaceStep]_vars

\* C9: create(name), then successful writes and truncates of that file,
\* then unlink(name): free_inodes and free_blocks are what they were before
\* the create.
C9_Conservation ==
  (mounted /\ ledger.closed) =>
    /\ sb_free_inodes(Mem) = ledger.fi
    /\ sb_free_blocks(Mem) = ledger.fb

\* C10: a write at an offset beyond the end of the file, ending within the
\* maximum file size while free blocks are available, returns the requested
\* length, makes the size offset + length, and the gap reads back as zeros.
C10_WriteBeyondEndStep ==
  (mounted /\ last'.op = "write"
     /\ last'.offset > i_size(Mem, InoOf(last'.name))
     /\ last'.offset + last'.size <= MaxFileSize
     /\ sb_free_blocks(Mem) > 0 /\ DataClearBits(Mem) > 0) =>
    /\ mounted'
    /\ last'.ret = last'.size
    /\ i_size(MemNext, InoOf(last'.name)) = last'.offset + last'.size
    /\ AllZero(vsfs_read(MemNext, last'.name,
                         last'.offset - i_size(Mem, InoOf(last'.name)),
                         i_size(Mem, InoOf(last'.name))).out)
C10_WriteBeyondEnd == [][C10_WriteBeyondEndStep]_vars

\* the superblock fields the formatter wrote and no operation may change
SbFixed(mm) ==
  <<Load(mm, SbAddr(SB_MAGIC)), Load(mm, SbAddr(SB_SIZE)), sb_num_inodes(mm),
    sb_num_blocks(mm), sb_data_region(mm)>>

\* C11: in every state reachable from a formatted image by engine
\* operations the superblock invariant holds: magic = MAGIC, free_inodes <=
\* num_inodes, free_blocks <= num_blocks - data_region, and magic, size,
\* num_inodes, num_blocks and data_region keep the formatter's values.
C11_Superblock ==
  mounted =>
    /\ Load(Mem, SbAddr(SB_MAGIC)) = VSFS_MAGIC
    /\ sb_free_inodes(Mem) <= sb_num_inodes(Mem)
    /\ sb_free_blocks(Mem) <= sb_num_blocks(Mem) - sb_data_region(Mem)
    /\ SbFixed(Mem) = SbFixed(mkfs(BlankImage, ImgCells, NumInodes, TRUE, 0).mm)

\* the references allocated inodes hold to block b: <<inode, k>> for file
\* block k (direct or listed in the indirect block), <<inode, -1>> for the
\* indirect block itself
References(mm, b) ==
  {r \in AllocatedInodes(mm) \X (-1..(VSFS_NUM_DIRECT + VSFS_BLOCK_SIZE \div SizeofBlkT - 1)) :
     IF r[2] = -1
     THEN i_blocks(mm, r[1]) > VSFS_NUM_DIRECT /\ i_indirect(mm, r[1]) = b
     ELSE r[2] < i_blocks(mm, r[1]) /\ BlockPointer(mm, r[1], r[2]) = b}

\* the data-region blocks whose data-bitmap bit is set
AllocatedBlocks(mm) ==
  {b \in sb_data_region(mm)..(sb_num_blocks(mm) - 1) :
     bitmap_isset(mm, VSFS_DMAP_BLKNUM, sb_num_blocks(mm), b)}

\* C12: in every reachable state each data-region block whose data-bitmap
\* bit is set is owned by exactly one allocated inode, as a direct block,
\* an indirect block or a block listed in an indirect block: none is
\* unowned and none is referenced twice.
C12_Ownership ==
  mounted => \A b \in AllocatedBlocks(Mem) : Cardinality(References(Mem, b)) = 1

\* the root directory slots in use
UsedSlots(mm) == Slots \ UnusedSlots(mm)

\* C13: after format and after every create and unlink, in the root
\* directory block every used slot (inode # INO_MAX) has a non-empty name
\* that no other used slot has, every other slot has inode = INO_MAX, and
\* `.` and `..` are present and point to ROOT_INO.
C13_RootDirectory ==
  mounted =>
    /\ \A i \in UsedSlots(Mem) :
          /\ NameLen(d_name(Mem, i)) > 0
          /\ \A j \in UsedSlots(Mem) : d_name(Mem, j) = d_name(Mem, i) => j = i
    /\ \A i \in Slots \ UsedSlots(Mem) : d_ino(Mem, i) = VSFS_INO_MAX
    /\ \A dot \in {NameDot, NameDotDot} :
          \E i \in UsedSlots(Mem) : d_name(Mem, i) = dot /\ d_ino(Mem, i) = VSFS_ROOT_INO

\* a name has been created, another unlinked, and a slot freed by an unlink
\* is in the block
C13_Witness ==
  /\ mounted /\ last.op = "unlink" /\ last.ret = 0
  /\ live # {}
  /\ \E i \in UnusedSlots(Mem) : d_name(Mem, i) \in FileNames \cup {0}
  /\ Cardinality(UsedSlots(Mem)) = 3

\* the elements of a sequence
Range(q) == {q[i] : i \in 1..Len(q)}

\* C14: after any sequence of successful creates and unlinks, readdir("/")
\* with a filler that never signals full hands the filler `.`, `..` and each
\* name created and not since unlinked, each exactly once and no other
\* name, and returns 0; if the filler signals full it returns ENOMEM.
C14_Readdir ==
  (mounted /\ last.op = "readdir") =>
    IF last.size = 0
    THEN /\ last.ret = 0
         /\ Range(last.out) = live \cup {NameDot, NameDotDot}
         /\ Len(last.out) = Cardinality(live) + 2
    ELSE last.ret = ENOMEM

\* a listing after a create and an unlink, one name still live
C14_Witness ==
  /\ mounted /\ last.op = "readdir" /\ last.size = 0 /\ last.ret = 0
  /\ Cardinality(live) = 1
  /\ Len(last.out) = 3
  /\ \E i \in UnusedSlots(Mem) : d_name(Mem, i) \in FileNames \cup {0}

\* the statement the formatter's main left from, in the step's record
Stage == last'.out[1]

\* C15: run without the force flag on an image whose superblock carries
\* MAGIC, the formatter reports failure and changes no byte of the image,
\* with or without the zero flag; the magic remains intact.
C15_RefuseStep ==
  (/\ last'.op = "mkfs_main"
   /\ Stage \notin {"args", "help", "map"}
   /\ last'.buf[1] = 0
   /\ vsfs_is_present(image))
  => (image' = image /\ vsfs_is_present(image') /\ last'.ret # 0)

C15_Refuse == [][C15_RefuseStep]_vars

\* C16: whenever the formatter fails before it writes the superblock
\* (inode count, block count, clock, root block allocation), the image does
\* not carry MAGIC afterwards and a mount refuses it, whatever the image
\* held before, a formatted image under a forced reformat included.
C16_NoMagicStep ==
  (last'.op = "mkfs_main" /\ Stage = "mkfs")
  => (~vsfs_is_present(image') /\ ~fs_ctx_init(image', ImgCells))

C16_NoMagic == [][C16_NoMagicStep]_vars

\* ceil(n / InodesPerBlock), in unbounded arithmetic
TableBlocks(n) == (n + InodesPerBlock - 1) \div InodesPerBlock

\* the superblock, data bitmap and root inode of a format with n inodes and
\* t inode-table blocks
Formatted(mm, n, t) ==
  /\ sb_num_inodes(mm) = n
  /\ sb_free_inodes(mm) = n - 1
  /\ sb_num_blocks(mm) = ImgBlocks
  /\ sb_free_blocks(mm) = ImgBlocks - 3 - t - 1
  /\ sb_data_region(mm) = 3 + t
  /\ {b \in 0..(ImgBlocks - 1) : bitmap_isset(mm, VSFS_DMAP_BLKNUM, ImgBlocks, b)}
       = 0..(3 + t)
  /\ i_direct(mm, VSFS_ROOT_INO, 0) = 3 + t

\* C17: after a successful format of an image of num_blocks blocks with N
\* inodes (T inode-table blocks) the superblock holds num_inodes = N,
\* free_inodes = N - 1, free_blocks = num_blocks - 3 - T - 1 and
\* data_region = 3 + T, the data bitmap has exactly blocks 0..3+T set with
\* the root directory block at data_region, and statfs on the mounted image
\* reports f_bsize = BLOCK_SIZE, f_blocks = num_blocks, f_bfree = f_bavail =
\* free_blocks, f_files = N, f_ffree = f_favail = N - 1.
C17_Format ==
  fmt.ok =>
    /\ Formatted(Mem, fmt.n, TableBlocks(fmt.n))
    /\ (mounted /\ last.op = "statfs") =>
          last.out = <<VSFS_BLOCK_SIZE, ImgBlocks,
                       ImgBlocks - 3 - TableBlocks(fmt.n) - 1,
                       ImgBlocks - 3 - TableBlocks(fmt.n) - 1,
                       fmt.n, fmt.n - 1, fmt.n - 1>>

\* statfs on a mounted image that a format with two inodes left, the
\* format having overwritten an image that was not zero
C17_Witness ==
  /\ fmt.ok /\ fmt.n = 2 /\ mounted /\ last.op = "statfs" /\ last.ret = 0
  /\ image[ImgCells - 1] # 0

\* C18: the formatter exits with code 0 when formatting succeeds and with
\* code 1 on every failure path: bad arguments, image cannot be mapped,
\* existing MAGIC without force, mkfs returning false.
C18_ExitCodeStep ==
  last'.op = "mkfs_main" =>
    /\ Stage = "ok" => last'.ret = 0
    /\ Stage \in {"args", "map", "present", "mkfs"} => last'.ret = 1

C18_ExitCode == [][C18_ExitCodeStep]_vars

\* C19: for every new_size whose block count ceil(new_size / BLOCK_SIZE)
\* exceeds NUM_DIRECT + BLOCK_SIZE / sizeof(block pointer), sizes where the
\* machine word wraps included, truncate returns EFBIG and changes no inode,
\* bitmap, counter or data byte.
C19_TooBigStep ==
  (/\ mounted
   /\ last'.op = "truncate"
   /\ CeilBlocks(last'.size) > VSFS_NUM_DIRECT + VSFS_BLOCK_SIZE \div SizeofBlkT)
  => (last'.ret = EFBIG /\ image' = image)

C19_TooBig == [][C19_TooBigStep]_vars

\* a utimens step on inode ino: it returns 0 and leaves every cell but the
\* inode's mtime as it was; "set" to t leaves mtime = t, and so does the
\* same call applied again; "omit" changes nothing
UtimensOk(ino, leaf, request, t) ==
  /\ last'.ret = 0 /\ mounted'
  /\ \A a \in 0..(ImgCells - 1) :
        a # InodeAddr(ino) + I_MTIME => image'[a] = image[a]
  /\ request = "set" =>
        /\ i_mtime(MemNext, ino) = t
        /\ vsfs_utimens(MemNext, leaf, "set", t, Now + 1).mm.c = image'
  /\ request = "omit" => image' = image

\* C20: utimens with an explicit timespec t sets the target inode's mtime
\* to t and is idempotent (applied twice, mtime = t); utimens with the
\* request "omit" returns success and changes no state; in every case no
\* inode other than the target and no bitmap or counter changes.
C20_UtimensStep ==
  (mounted /\ last'.op = "utimens")
  => UtimensOk(InoOf(last'.name), last'.name, last'.out[1], last'.size)

C20_Utimens == [][C20_UtimensStep]_vars

\* an explicit time has been set on a file and is not the root's
C20_Witness ==
  /\ mounted /\ last.op = "utimens" /\ last.out = <<"set">> /\ last.ret = 0
  /\ last.name \in FileNames
  /\ i_mtime(Mem, path_lookup(Mem, last.name).ino) = last.size
  /\ i_mtime(Mem, VSFS_ROOT_INO) # last.size

MaxNat(a, b) == IF a >= b THEN a ELSE b

\* C21: after every successful write(p, buf, sz, off) on a file of size S
\* getattr reports size max(S, off + sz); a write that lies within the file
\* (off + sz <= S) leaves size and block count unchanged.
C21_WriteSizeStep ==
  (mounted /\ mounted' /\ last'.op = "write" /\ last'.ret = last'.size) =>
    /\ vsfs_getattr(MemNext, last'.name).ret = 0
    /\ vsfs_getattr(MemNext, last'.name).st_size
         = MaxNat(i_size(Mem, InoOf(last'.name)), last'.offset + last'.size)
    /\ last'.offset + last'.size <= i_size(Mem, InoOf(last'.name)) =>
          /\ i_size(MemNext, InoOf(last'.name)) = i_size(Mem, InoOf(last'.name))
          /\ i_blocks(MemNext, InoOf(last'.name)) = i_blocks(Mem, InoOf(last'.name))

C21_WriteSize == [][C21_WriteSizeStep]_vars

\* the file blocks a file of n bytes has
FileBlocks(n) == 0..(CeilBlocks(n) - 1)

\* what the byte array holds in file block k
RefBlock(bytes, k) ==
  SubSeq(bytes, k * VSFS_BLOCK_SIZE + 1, MinNat(Len(bytes), (k + 1) * VSFS_BLOCK_SIZE))

\* C22: for any sequence of successful writes and truncates on one file,
\* read(p, _, n, off) returns min(n, size - off) bytes (0 when off >= size),
\* the bytes a sparse byte array holds: each the value last written at that
\* offset, or zero if never written since the range became part of the file;
\* bytes at offsets k and k + BLOCK_SIZE are independent and a truncate
\* keeps the bytes in [0, min(old size, new size)).
C22_Refinement ==
  (mounted /\ ledger.name \in FileNames /\ ~ledger.closed) =>
    /\ vsfs_read(Mem, ledger.name, 1, i_size(Mem, InoOf(ledger.name))).ret = 0
    /\ \A k \in FileBlocks(Len(ref[ledger.name])) :
          /\ vsfs_read(Mem, ledger.name, Len(RefBlock(ref[ledger.name], k)),
                       k * VSFS_BLOCK_SIZE).ret
               = MinNat(Len(RefBlock(ref[ledger.name], k)),
                        i_size(Mem, InoOf(ledger.name)) - k * VSFS_BLOCK_SIZE)
          /\ vsfs_read(Mem, ledger.name, Len(RefBlock(ref[ledger.name], k)),
                       k * VSFS_BLOCK_SIZE).out
               = RefBlock(ref[ledger.name], k)

\* the files in the root directory other than leaf
OtherFiles(mm, leaf) == {q \in FileNames \ {leaf} : path_lookup(mm, q).err = 0}

\* C23: for any two distinct existing files p and q, a write or truncate on
\* p changes neither the size of q nor any byte read returns for q, and
\* changes no root directory entry.
C23_IsolationStep ==
  (mounted /\ mounted' /\ last'.op \in {"write", "truncate"}) =>
    /\ RootEntries(MemNext) = RootEntries(Mem)
    /\ \A q \in OtherFiles(Mem, last'.name) :
          /\ i_size(MemNext, InoOf(q)) = i_size(Mem, InoOf(q))
          /\ Contents(MemNext, q) = Contents(Mem, q)

C23_Isolation == [][C23_IsolationStep]_vars

\* the blocks whose data-bitmap bit is set
BitsSet(mm) ==
  {b \in 0..(ImgBlocks - 1) : bitmap_isset(mm, VSFS_DMAP_BLKNUM, ImgBlocks, b)}

\* the blocks the inode names at file block indices lo..hi
BlocksAt(mm, ino, lo, hi) == {BlockPointer(mm, ino, k) : k \in lo..hi}

\* a shrink of inode ino from old to new blocks: the bits cleared are those
\* of the data blocks at indices new..old-1, one per index, the blocks
\* below stay set and named by the inode, free_blocks grows by old - new
ShrinkOk(ino, old, new) ==
  /\ BitsSet(MemNext) \subseteq BitsSet(Mem)
  /\ BitsSet(Mem) \ BitsSet(MemNext) = BlocksAt(Mem, ino, new, old - 1)
  /\ Cardinality(BitsSet(Mem) \ BitsSet(MemNext)) = old - new
  /\ \A b \in BitsSet(Mem) \ BitsSet(MemNext) :
        b >= VSFS_ITBL_BLKNUM + TableBlocks(NumInodes)
  /\ \A k \in 0..(new - 1) :
        /\ BlockPointer(MemNext, ino, k) = BlockPointer(Mem, ino, k)
        /\ BlockPointer(Mem, ino, k) \in BitsSet(MemNext)
  /\ sb_free_blocks(MemNext) = sb_free_blocks(Mem) + (old - new)

\* C24: a shrinking truncate from old_blocks to new_blocks frees exactly
\* the data blocks at file block indices new_blocks..old_blocks-1 and no
\* others: the blocks at indices 0..new_blocks-1 stay allocated and
\* referenced by the inode, and free_blocks changes by exactly
\* old_blocks - new_blocks.
C24_ShrinkStep ==
  (/\ mounted /\ mounted'
   /\ last'.op = "truncate" /\ last'.ret = 0
   /\ CeilBlocks(last'.size) < i_blocks(Mem, InoOf(last'.name)))
  => ShrinkOk(InoOf(last'.name), i_blocks(Mem, InoOf(last'.name)), CeilBlocks(last'.size))

C24_Shrink == [][C24_ShrinkStep]_vars

\* the blocks a file of n blocks owns: those at indices 0..n-1 and, past
\* VSFS_NUM_DIRECT, the indirect block
OwnedBlocks(mm, ino, n) ==
  BlocksAt(mm, ino, 0, n - 1)
    \cup (IF n > VSFS_NUM_DIRECT THEN {i_indirect(mm, ino)} ELSE {})

\* an unlink of inode ino holding n blocks: the bits cleared are those of
\* the data blocks it owns, one per block, and its inode bit
UnlinkOk(ino, n) ==
  /\ BitsSet(MemNext) \subseteq BitsSet(Mem)
  /\ BitsSet(Mem) \ BitsSet(MemNext) = OwnedBlocks(Mem, ino, n)
  /\ Cardinality(BitsSet(Mem) \ BitsSet(MemNext))
       = n + (IF n > VSFS_NUM_DIRECT THEN 1 ELSE 0)
  /\ \A b \in BitsSet(Mem) \ BitsSet(MemNext) :
        b >= VSFS_ITBL_BLKNUM + TableBlocks(NumInodes)
  /\ AllocatedInodes(MemNext) = AllocatedInodes(Mem) \ {ino}

\* C25: when unlink brings a file's link count to zero it frees every data
\* block the file owns and nothing else: the blocks in
\* i_direct[0..block_count-1] and, past NUM_DIRECT, the indirect block and
\* every block listed in it; afterwards exactly those data-bitmap bits and
\* the file's inode bit have been cleared.
C25_UnlinkFreesStep ==
  (/\ mounted /\ mounted'
   /\ last'.op = "unlink" /\ last'.ret = 0
   /\ i_nlink(Mem, InoOf(last'.name)) = 1)
  => UnlinkOk(InoOf(last'.name), i_blocks(Mem, InoOf(last'.name)))

C25_UnlinkFrees == [][C25_UnlinkFreesStep]_vars

\* the slot that holds the name before the step
SlotOf(leaf) == MinOf(MatchSlots(Mem, leaf))

\* C26: after unlink("/name"), for a name of any length 1..NAME_MAX, the
\* directory slot that held it has inode = INO_MAX and an empty name, the
\* path no longer resolves (getattr returns ENOENT), and a following create
\* places its entry in the lowest-index unused slot.
C26_SlotReuseStep ==
  /\ (mounted /\ mounted' /\ last'.op = "unlink" /\ last'.ret = 0) =>
        /\ d_ino(MemNext, SlotOf(last'.name)) = VSFS_INO_MAX
        /\ d_name(MemNext, SlotOf(last'.name)) = 0
        /\ vsfs_getattr(MemNext, last'.name).ret = ENOENT
  /\ (mounted /\ mounted' /\ last'.op = "create" /\ last'.ret = 0) =>
        /\ d_ino(Mem, MinOf(UnusedSlots(Mem))) = VSFS_INO_MAX
        /\ d_ino(MemNext, MinOf(UnusedSlots(Mem))) # VSFS_INO_MAX
        /\ d_name(MemNext, MinOf(UnusedSlots(Mem))) = last'.name
        /\ UnusedSlots(MemNext) = UnusedSlots(Mem) \ {MinOf(UnusedSlots(Mem))}

C26_SlotReuse == [][C26_SlotReuseStep]_vars
====
